---- MODULE Spec2Model ----
(***************************************************************************)
(* Model of sodiumoxide_extras (src/src/lib.rs): the seeded replacement of *)
(* libsodium's randombytes.  init_with_rng is modelled step by step, with  *)
(* the two mutexes (INIT_RESULT, RANDOM_BYTES_IMPL) and the thread-local   *)
(* RNG; the callbacks random, buf and implementation_name are the entry    *)
(* points libsodium calls once the implementation is registered.           *)
(***************************************************************************)
EXTENDS Integers, Sequences, FiniteSets, TLC

\* ------------------------------------------------------------------ bounds
NThreads == 2
MaxCalls == 2
MaxCallbacks == 2
MaxLen == 2

\* ------------------------------------------------------- program constants
WordBits == 32
ByteBits == 8

Threads == 1..NThreads

\* Values an entropy source (or rand::random) can yield for the four seed
\* words.  XorShiftRng::from_seed rejects the all-zero seed, so it is left out.
Seeds == { <<0, 1, 2, 3>>, <<9, 9, 9, 9>> }

\* Status codes of the two libsodium entry points (c_int): 0 is success,
\* -1 and 1 are the failures the documentation of init_with_rng names.
Codes == { 0, -1, 1 }

\* Option<T>: None is the empty sequence, Some(v) the one-element sequence.
None == <<>>
Some(v) == <<v>>

\* Result<(), i32>
Ok == [ok |-> TRUE, code |-> 0]
Err(c) == [ok |-> FALSE, code |-> c]

\* ------------------------------------------------------------ 32-bit words
\* A u32 is the sequence of its bits, least significant first.
RECURSIVE Bits(_, _)
Bits(n, k) == IF k = 0 THEN <<>> ELSE <<n % 2>> \o Bits(n \div 2, k - 1)

Xor(a, b) == [i \in 1..WordBits |-> (a[i] + b[i]) % 2]
Shl(a, k) == [i \in 1..WordBits |-> IF i > k THEN a[i - k] ELSE 0]
Shr(a, k) == [i \in 1..WordBits |-> IF i + k <= WordBits THEN a[i + k] ELSE 0]

RECURSIVE LowBits(_, _)
LowBits(w, k) == IF k = 0 THEN 0 ELSE w[1] + 2 * LowBits(Tail(w), k - 1)

\* `rng.gen::<u8>()`: the next u32 truncated to its low byte.
AsU8(w) == LowBits(w, ByteBits)

\* XorShiftRng::from_seed
from_seed(s) ==
    [x |-> Bits(s[1], WordBits), y |-> Bits(s[2], WordBits),
     z |-> Bits(s[3], WordBits), w |-> Bits(s[4], WordBits)]

\* XorShiftRng::next_u32: the generator after one step; its output is .w
next_u32(g) ==
    LET t == Xor(g.x, Shl(g.x, 11))
    IN  [x |-> g.y, y |-> g.z, z |-> g.w,
         w |-> Xor(Xor(g.w, Shr(g.w, 19)), Xor(t, Shr(t, 8)))]

VARIABLES
    pc,                 \* per thread: position inside init_with_rng
    seed,               \* per thread: the local `seed` of init_with_rng
    sodium_result,      \* per thread: the local `sodium_result`
    init_lock,          \* holder of the INIT_RESULT mutex, 0 when free
    impl_lock,          \* holder of the RANDOM_BYTES_IMPL mutex, 0 when free
    init_result,        \* INIT_RESULT: Option<i32>
    random_bytes_seed,  \* RANDOM_BYTES_IMPL.seed
    rng,                \* per thread: the thread-local RNG, None until first use
    registered,         \* libsodium holds our function pointers
    host_log,           \* calls made into libsodium, with their return values
    returns,            \* completed init_with_rng calls, in order of return
    origin,             \* per thread: seed the current RNG was built from
    calls,              \* per thread: callbacks served by the current RNG
    outs,               \* per thread: values those callbacks produced
    ncallbacks,         \* callbacks libsodium has made so far
    last                \* the most recent callback invocation

vars == <<pc, seed, sodium_result, init_lock, impl_lock, init_result,
          random_bytes_seed, rng, registered, host_log, returns,
          origin, calls, outs, ncallbacks, last>>

NoSeed == <<0, 0, 0, 0>>
NoCall == [kind |-> "none"]

\* impl Default for RandomBytesImpl: four rand::random() words.
RandomBytesImpl_default == Seeds

Init ==
    /\ pc = [t \in Threads |-> "idle"]
    /\ seed = [t \in Threads |-> NoSeed]
    /\ sodium_result = [t \in Threads |-> 0]
    /\ init_lock = 0
    /\ impl_lock = 0
    /\ init_result = None
    /\ random_bytes_seed \in RandomBytesImpl_default
    /\ rng = [t \in Threads |-> None]
    /\ registered = FALSE
    /\ host_log = <<>>
    /\ returns = <<>>
    /\ origin = [t \in Threads |-> NoSeed]
    /\ calls = [t \in Threads |-> <<>>]
    /\ outs = [t \in Threads |-> <<>>]
    /\ ncallbacks = 0
    /\ last = NoCall

\* ------------------------------------------------------------ thread-local
\* thread_local!(static RNG ...): the first access on a thread builds the
\* generator from RANDOM_BYTES_IMPL.seed, which it reads under that mutex.
RNG_ready(t) == rng[t] # None \/ impl_lock = 0
\* Variant: every access rebuilds the generator from RANDOM_BYTES_IMPL.seed.
RNG_with_rebuilt(t) == from_seed(random_bytes_seed)

\* Variant: one generator for the whole process instead of one per thread.
RNG_with_shared(t) ==
    IF \E u \in Threads : rng[u] # None
    THEN rng[CHOOSE u \in Threads : rng[u] # None][1]
    ELSE from_seed(random_bytes_seed)

RNG_with(t) == IF rng[t] = None THEN from_seed(random_bytes_seed) ELSE rng[t][1]
RNG_origin(t) == IF rng[t] = None THEN random_bytes_seed ELSE origin[t]

\* --------------------------------------------------------------- libsodium
SET_IMPL == "randombytes_set_implementation"
SODIUM_INIT == "sodium_init"
HostCalls(fn) == { i \in DOMAIN host_log : host_log[i].fn = fn }

\* ----------------------------------------------------------- init_with_rng
Started == Len(returns) + Cardinality({ t \in Threads : pc[t] \notin {"idle"} })

Return(t, res, how) ==
    /\ returns' = Append(returns,
                     [thr |-> t, res |-> res, seed |-> seed[t], how |-> how,
                      regs |-> Cardinality(HostCalls(SET_IMPL)),
                      inits |-> Cardinality(HostCalls(SODIUM_INIT))])
    /\ init_lock' = 0
    /\ pc' = [pc EXCEPT ![t] = "idle"]
    /\ seed' = [seed EXCEPT ![t] = NoSeed]
    /\ sodium_result' = [sodium_result EXCEPT ![t] = 0]

\* line 160: the seed is drawn from the caller's rng before any lock is taken
init_with_rng(t, s) ==
    /\ pc[t] = "idle"
    /\ Started < MaxCalls
    /\ seed' = [seed EXCEPT ![t] = s]
    /\ pc' = [pc EXCEPT ![t] = "lock"]
    /\ UNCHANGED <<sodium_result, init_lock, impl_lock, init_result,
                   random_bytes_seed, rng, registered, host_log, returns,
                   origin, calls, outs, ncallbacks, last>>

\* Variant: the INIT_RESULT guard does not exclude other threads.
lock_INIT_RESULT_unguarded(t) ==
    /\ pc[t] = "lock"
    /\ init_lock' = t
    /\ pc' = [pc EXCEPT ![t] = "check"]
    /\ UNCHANGED <<seed, sodium_result, impl_lock, init_result,
                   random_bytes_seed, rng, registered, host_log, returns,
                   origin, calls, outs, ncallbacks, last>>

\* line 161: INIT_RESULT.lock(), held until the function returns
lock_INIT_RESULT(t) ==
    /\ pc[t] = "lock"
    /\ init_lock = 0
    /\ init_lock' = t
    /\ pc' = [pc EXCEPT ![t] = "check"]
    /\ UNCHANGED <<seed, sodium_result, impl_lock, init_result,
                   random_bytes_seed, rng, registered, host_log, returns,
                   origin, calls, outs, ncallbacks, last>>

\* Variant: a reseed replaces the generator of every thread that has one.
existing_result_ok_resets_all(t) ==
    /\ pc[t] = "check"
    /\ init_result = Some(0)
    /\ RNG_ready(t)
    /\ rng' = [u \in Threads |->
                 IF u = t \/ rng[u] # None THEN Some(from_seed(seed[t])) ELSE None]
    /\ origin' = [u \in Threads |->
                 IF u = t \/ rng[u] # None THEN seed[t] ELSE origin[u]]
    /\ calls' = [u \in Threads |-> <<>>]
    /\ outs' = [u \in Threads |-> <<>>]
    /\ Return(t, Ok, "existing")
    /\ UNCHANGED <<impl_lock, init_result, random_bytes_seed, registered,
                   host_log, ncallbacks, last>>

\* lines 162-164: an earlier call succeeded; only this thread's RNG is reseeded
existing_result_ok(t) ==
    /\ pc[t] = "check"
    /\ init_result = Some(0)
    /\ RNG_ready(t)
    /\ rng' = [rng EXCEPT ![t] = Some(from_seed(seed[t]))]
    /\ origin' = [origin EXCEPT ![t] = seed[t]]
    /\ calls' = [calls EXCEPT ![t] = <<>>]
    /\ outs' = [outs EXCEPT ![t] = <<>>]
    /\ Return(t, Ok, "existing")
    /\ UNCHANGED <<impl_lock, init_result, random_bytes_seed, registered,
                   host_log, ncallbacks, last>>

\* Variant: a stored failure is not honoured and registration is retried.
existing_result_err_retry(t) ==
    /\ pc[t] = "check"
    /\ init_result # None
    /\ init_result # Some(0)
    /\ impl_lock = 0
    /\ impl_lock' = t
    /\ pc' = [pc EXCEPT ![t] = "register"]
    /\ UNCHANGED <<seed, sodium_result, init_lock, init_result,
                   random_bytes_seed, rng, registered, host_log, returns,
                   origin, calls, outs, ncallbacks, last>>

\* Variant: a stored failure still reseeds the caller's RNG, as a stored
\* success does.
existing_result_err_reseeds(t) ==
    /\ pc[t] = "check"
    /\ init_result # None
    /\ init_result # Some(0)
    /\ RNG_ready(t)
    /\ rng' = [rng EXCEPT ![t] = Some(from_seed(seed[t]))]
    /\ origin' = [origin EXCEPT ![t] = seed[t]]
    /\ calls' = [calls EXCEPT ![t] = <<>>]
    /\ outs' = [outs EXCEPT ![t] = <<>>]
    /\ Return(t, Err(init_result[1]), "existing")
    /\ UNCHANGED <<impl_lock, init_result, random_bytes_seed, registered,
                   host_log, ncallbacks, last>>

\* lines 165-167: an earlier call failed; its code is returned again
existing_result_err(t) ==
    /\ pc[t] = "check"
    /\ init_result # None
    /\ init_result # Some(0)
    /\ Return(t, Err(init_result[1]), "existing")
    /\ UNCHANGED <<impl_lock, init_result, random_bytes_seed, rng, registered,
                   host_log, origin, calls, outs, ncallbacks, last>>

\* line 171: RANDOM_BYTES_IMPL.lock()
lock_RANDOM_BYTES_IMPL(t) ==
    /\ pc[t] = "check"
    /\ init_result = None
    /\ impl_lock = 0
    /\ impl_lock' = t
    /\ pc' = [pc EXCEPT ![t] = "register"]
    /\ UNCHANGED <<seed, sodium_result, init_lock, init_result,
                   random_bytes_seed, rng, registered, host_log, returns,
                   origin, calls, outs, ncallbacks, last>>

\* Variant: the RANDOM_BYTES_IMPL guard is not dropped at line 175 but lives
\* to the end of the function.
randombytes_set_implementation_keeps_guard(t, r) ==
    /\ pc[t] = "register"
    /\ random_bytes_seed' = seed[t]
    /\ sodium_result' = [sodium_result EXCEPT ![t] = r]
    /\ host_log' = Append(host_log, [fn |-> SET_IMPL, thr |-> t, ret |-> Some(r)])
    /\ registered' = (registered \/ r = 0)
    /\ impl_lock' = impl_lock
    /\ pc' = [pc EXCEPT ![t] = IF r = 0 THEN "sodium_init" ELSE "reset"]
    /\ UNCHANGED <<seed, init_lock, init_result, rng, returns,
                   origin, calls, outs, ncallbacks, last>>

\* Variant: sodium_init() is attempted whatever registration returned.
randombytes_set_implementation_always_init(t, r) ==
    /\ pc[t] = "register"
    /\ random_bytes_seed' = seed[t]
    /\ sodium_result' = [sodium_result EXCEPT ![t] = r]
    /\ host_log' = Append(host_log, [fn |-> SET_IMPL, thr |-> t, ret |-> Some(r)])
    /\ registered' = (registered \/ r = 0)
    /\ impl_lock' = 0
    /\ pc' = [pc EXCEPT ![t] = "sodium_init"]
    /\ UNCHANGED <<seed, init_lock, init_result, rng, returns,
                   origin, calls, outs, ncallbacks, last>>

\* lines 172-175: store the seed, register with libsodium, drop the guard
randombytes_set_implementation(t, r) ==
    /\ pc[t] = "register"
    /\ random_bytes_seed' = seed[t]
    /\ sodium_result' = [sodium_result EXCEPT ![t] = r]
    /\ host_log' = Append(host_log, [fn |-> SET_IMPL, thr |-> t, ret |-> Some(r)])
    /\ registered' = (registered \/ r = 0)
    /\ impl_lock' = 0
    /\ pc' = [pc EXCEPT ![t] = IF r = 0 THEN "sodium_init" ELSE "reset"]
    /\ UNCHANGED <<seed, init_lock, init_result, rng, returns,
                   origin, calls, outs, ncallbacks, last>>

\* lines 176-177: registration returned 0, so sodium_init() is entered
sodium_init_call(t) ==
    /\ pc[t] = "sodium_init"
    /\ host_log' = Append(host_log, [fn |-> SODIUM_INIT, thr |-> t, ret |-> None])
    /\ pc' = [pc EXCEPT ![t] = "in_sodium_init"]
    /\ UNCHANGED <<seed, sodium_result, init_lock, impl_lock, init_result,
                   random_bytes_seed, rng, registered, returns,
                   origin, calls, outs, ncallbacks, last>>

\* line 177: sodium_init() returns and its code replaces sodium_result
sodium_init_return(t, r) ==
    /\ pc[t] = "in_sodium_init"
    /\ sodium_result' = [sodium_result EXCEPT ![t] = r]
    /\ host_log' = [host_log EXCEPT ![Len(host_log)].ret = Some(r)]
    /\ pc' = [pc EXCEPT ![t] = "reset"]
    /\ UNCHANGED <<seed, init_lock, impl_lock, init_result,
                   random_bytes_seed, rng, registered, returns,
                   origin, calls, outs, ncallbacks, last>>

\* Variant: every failure is reported as -1.
result_of_collapsed(code) == IF code = 0 THEN Ok ELSE Err(-1)

\* match at lines 184-187
result_of(code) == IF code = 0 THEN Ok ELSE Err(code)

\* Variant: the thread-local RNG is not reset at line 182.
record_result_no_reset(t) ==
    /\ pc[t] = "reset"
    /\ init_result' = Some(sodium_result[t])
    /\ Return(t, result_of(sodium_result[t]), "first")
    /\ UNCHANGED <<impl_lock, random_bytes_seed, rng, registered, host_log,
                   origin, calls, outs, ncallbacks, last>>

\* Variant: the result is returned but never stored in INIT_RESULT.
record_result_not_stored(t) ==
    /\ pc[t] = "reset"
    /\ RNG_ready(t)
    /\ rng' = [rng EXCEPT ![t] = Some(from_seed(seed[t]))]
    /\ origin' = [origin EXCEPT ![t] = seed[t]]
    /\ calls' = [calls EXCEPT ![t] = <<>>]
    /\ outs' = [outs EXCEPT ![t] = <<>>]
    /\ init_result' = init_result
    /\ Return(t, result_of(sodium_result[t]), "first")
    /\ UNCHANGED <<impl_lock, random_bytes_seed, registered, host_log,
                   ncallbacks, last>>

\* Variant: success is stored whatever libsodium returned.
record_result_stores_success(t) ==
    /\ pc[t] = "reset"
    /\ RNG_ready(t)
    /\ rng' = [rng EXCEPT ![t] = Some(from_seed(seed[t]))]
    /\ origin' = [origin EXCEPT ![t] = seed[t]]
    /\ calls' = [calls EXCEPT ![t] = <<>>]
    /\ outs' = [outs EXCEPT ![t] = <<>>]
    /\ init_result' = Some(0)
    /\ Return(t, result_of(sodium_result[t]), "first")
    /\ UNCHANGED <<impl_lock, random_bytes_seed, registered, host_log,
                   ncallbacks, last>>

\* lines 182-187: reset this thread's RNG, record the result, return it
record_result(t) ==
    /\ pc[t] = "reset"
    /\ RNG_ready(t)
    /\ rng' = [rng EXCEPT ![t] = Some(from_seed(seed[t]))]
    /\ origin' = [origin EXCEPT ![t] = seed[t]]
    /\ calls' = [calls EXCEPT ![t] = <<>>]
    /\ outs' = [outs EXCEPT ![t] = <<>>]
    /\ init_result' = Some(sodium_result[t])
    /\ Return(t, result_of(sodium_result[t]), "first")
    /\ UNCHANGED <<impl_lock, random_bytes_seed, registered, host_log,
                   ncallbacks, last>>

\* ---------------------------------------------------------------- callbacks
\* libsodium calls back on a thread that is running user code, or on the
\* initialising thread from inside sodium_init().
CallbackEnabled(t) ==
    /\ registered
    /\ pc[t] \in {"idle", "in_sodium_init"}
    /\ ncallbacks < MaxCallbacks

NAME == "Rust XorShiftRng"

\* Variant: looking up the name goes through RNG.with and so builds the
\* thread's generator.
implementation_name_builds_rng(t) ==
    /\ CallbackEnabled(t)
    /\ impl_lock = 0
    /\ rng' = [rng EXCEPT ![t] = Some(RNG_with(t))]
    /\ origin' = [origin EXCEPT ![t] = RNG_origin(t)]
    /\ ncallbacks' = ncallbacks + 1
    /\ last' = [kind |-> "implementation_name", thr |-> t, out |-> NAME]
    /\ UNCHANGED <<pc, seed, sodium_result, init_lock, impl_lock, init_result,
                   random_bytes_seed, registered, host_log, returns,
                   calls, outs>>

\* ffi::implementation_name
implementation_name(t) ==
    /\ CallbackEnabled(t)
    /\ impl_lock = 0
    /\ ncallbacks' = ncallbacks + 1
    /\ last' = [kind |-> "implementation_name", thr |-> t, out |-> NAME]
    /\ UNCHANGED <<pc, seed, sodium_result, init_lock, impl_lock, init_result,
                   random_bytes_seed, rng, registered, host_log, returns,
                   origin, calls, outs>>

\* ffi::random
random(t) ==
    /\ CallbackEnabled(t)
    /\ RNG_ready(t)
    /\ LET g == next_u32(RNG_with(t)) IN
        /\ rng' = [rng EXCEPT ![t] = Some(g)]
        /\ origin' = [origin EXCEPT ![t] = RNG_origin(t)]
        /\ calls' = [calls EXCEPT ![t] = Append(@, -1)]
        /\ outs' = [outs EXCEPT ![t] = Append(@, g.w)]
        /\ last' = [kind |-> "random", thr |-> t, pre |-> RNG_with(t),
                    post |-> g, out |-> g.w]
    /\ ncallbacks' = ncallbacks + 1
    /\ UNCHANGED <<pc, seed, sodium_result, init_lock, impl_lock, init_result,
                   random_bytes_seed, registered, host_log, returns>>

\* The memory at and after `ptr`: for each offset, the bytes stored there
\* during one call of buf, in order.  One cell past the longest request is
\* kept so that a write beyond the request is seen.
Offsets == 0..MaxLen
Untouched == [o \in Offsets |-> <<>>]

\* Variant: the loop runs over 0..=size.
RECURSIVE buf_loop_inclusive(_, _, _, _)
buf_loop_inclusive(g, i, size, m) ==
    IF i > size THEN [g |-> g, m |-> m]
    ELSE LET g2 == next_u32(g)
         IN  buf_loop_inclusive(g2, i + 1, size,
                                [m EXCEPT ![i] = Append(@, AsU8(g2.w))])

\* ffi::buf, lines 135-137: for i in 0..size { *ptr.offset(i) = rng.gen() }
RECURSIVE buf_loop(_, _, _, _)
buf_loop(g, i, size, m) ==
    IF i >= size THEN [g |-> g, m |-> m]
    ELSE LET g2 == next_u32(g)
         IN  buf_loop(g2, i + 1, size, [m EXCEPT ![i] = Append(@, AsU8(g2.w))])

\* Variant: line 133 clones the generator instead of the Rc, so the bytes are
\* drawn from a copy and the thread's generator does not advance.
buf_from_copy(t, size) ==
    /\ CallbackEnabled(t)
    /\ RNG_ready(t)
    /\ LET r == buf_loop(RNG_with(t), 0, size, Untouched) IN
        /\ rng' = [rng EXCEPT ![t] = Some(RNG_with(t))]
        /\ origin' = [origin EXCEPT ![t] = RNG_origin(t)]
        /\ calls' = [calls EXCEPT ![t] = Append(@, size)]
        /\ outs' = [outs EXCEPT ![t] = Append(@, r.m)]
        /\ last' = [kind |-> "buf", thr |-> t, size |-> size,
                    pre |-> RNG_with(t), post |-> RNG_with(t), mem |-> r.m]
    /\ ncallbacks' = ncallbacks + 1
    /\ UNCHANGED <<pc, seed, sodium_result, init_lock, impl_lock, init_result,
                   random_bytes_seed, registered, host_log, returns>>

\* ffi::buf
buf(t, size) ==
    /\ CallbackEnabled(t)
    /\ RNG_ready(t)
    /\ LET r == buf_loop(RNG_with(t), 0, size, Untouched) IN
        /\ rng' = [rng EXCEPT ![t] = Some(r.g)]
        /\ origin' = [origin EXCEPT ![t] = RNG_origin(t)]
        /\ calls' = [calls EXCEPT ![t] = Append(@, size)]
        /\ outs' = [outs EXCEPT ![t] = Append(@, r.m)]
        /\ last' = [kind |-> "buf", thr |-> t, size |-> size,
                    pre |-> RNG_with(t), post |-> r.g, mem |-> r.m]
    /\ ncallbacks' = ncallbacks + 1
    /\ UNCHANGED <<pc, seed, sodium_result, init_lock, impl_lock, init_result,
                   random_bytes_seed, registered, host_log, returns>>

Next ==
    \E t \in Threads :
        \/ \E s \in Seeds : init_with_rng(t, s)
        \/ lock_INIT_RESULT(t)
        \/ existing_result_ok(t)
        \/ existing_result_err(t)
        \/ lock_RANDOM_BYTES_IMPL(t)
        \/ \E r \in Codes : randombytes_set_implementation(t, r)
        \/ sodium_init_call(t)
        \/ \E r \in Codes : sodium_init_return(t, r)
        \/ record_result(t)
        \/ implementation_name(t)
        \/ random(t)
        \/ \E size \in 0..MaxLen : buf(t, size)

Spec == Init /\ [][Next]_vars

\* The steps of a call of init_with_rng that is under way on thread t.  The
\* operating system schedules every runnable thread, and sodium_init()
\* returns; whether and when init_with_rng is called, and whether libsodium
\* calls back, is up to the caller.
init_with_rng_step(t) ==
    \/ lock_INIT_RESULT(t)
    \/ existing_result_ok(t)
    \/ existing_result_err(t)
    \/ lock_RANDOM_BYTES_IMPL(t)
    \/ \E r \in Codes : randombytes_set_implementation(t, r)
    \/ sodium_init_call(t)
    \/ \E r \in Codes : sodium_init_return(t, r)
    \/ record_result(t)

FairSpec == Spec /\ \A t \in Threads : WF_vars(init_with_rng_step(t))

TypeOK ==
    /\ init_lock \in 0..NThreads
    /\ impl_lock \in 0..NThreads
    /\ init_result \in {None} \cup { Some(c) : c \in Codes }
    /\ random_bytes_seed \in Seeds
    /\ Len(returns) <= MaxCalls

\* ================================================================== claims
Registrations == HostCalls(SET_IMPL)
Initialisations == HostCalls(SODIUM_INIT)
HoldsInitLock == {"check", "register", "sodium_init", "in_sodium_init", "reset"}
FirstPath == {"register", "sodium_init", "in_sodium_init", "reset"}
Last(q) == q[Len(q)]

\* C1: under every interleaving of concurrent init_with_rng calls,
\* randombytes_set_implementation is called at most once, and exactly once
\* as soon as any call has returned; a caller past the INIT_RESULT lock is
\* its only holder, and one that reads INIT_RESULT as None does so only
\* while no registration has been attempted by anyone else.
C1_SingleRegistration ==
    /\ Cardinality(Registrations) <= 1
    /\ returns # <<>> => Cardinality(Registrations) = 1
    /\ \A t \in Threads : pc[t] \in HoldsInitLock => init_lock = t
    /\ \A t \in Threads :
          pc[t] = "check" /\ init_result = None => Registrations = {}
    /\ \A t \in Threads :
          pc[t] \in FirstPath =>
              /\ init_result = None
              /\ \A i \in Registrations : host_log[i].thr = t

\* C1 witness: one thread is past registration, still holding the lock, while
\* another caller waits for it.
C1_Witness ==
    \E t, u \in Threads :
        /\ t # u
        /\ pc[t] = "in_sodium_init"
        /\ pc[u] = "lock"
        /\ Cardinality(Registrations) = 1

\* C2: sticky failure: once a call has returned Err(code), every later call
\* returns Err with the same code and libsodium is not called again.
C2_StickyFailure ==
    \A i, j \in DOMAIN returns :
        i < j /\ ~returns[i].res.ok =>
            /\ returns[j].res = returns[i].res
            /\ returns[j].regs = returns[i].regs
            /\ returns[j].inits = returns[i].inits
            /\ Cardinality(Registrations) = returns[i].regs
            /\ Cardinality(Initialisations) = returns[i].inits

\* C2 witness: a failure, then a call from another thread with another seed
\* that was answered with the same failure.
C2_Witness ==
    /\ Len(returns) = 2
    /\ ~returns[1].res.ok
    /\ ~returns[2].res.ok
    /\ returns[1].thr # returns[2].thr
    /\ returns[1].seed # returns[2].seed

\* C3: idempotent success: once a call has returned Ok, every later call
\* returns Ok and no second registration is made.
C3_IdempotentSuccess ==
    \A i, j \in DOMAIN returns :
        i < j /\ returns[i].res.ok =>
            /\ returns[j].res = Ok
            /\ returns[j].regs = 1
            /\ Cardinality(Registrations) = 1

\* C3 witness: a success, then a second successful call with another seed.
C3_Witness ==
    /\ Len(returns) = 2
    /\ returns[1].res.ok
    /\ returns[2].res.ok
    /\ returns[1].seed # returns[2].seed

\* The bytes a generator in state g yields for a buffer of MaxLen bytes.
Stream(g) == buf_loop(g, 0, MaxLen, Untouched).m
LastReturnOf(t) ==
    LET I == { i \in DOMAIN returns : returns[i].thr = t }
    IN  returns[CHOOSE i \in I : \A k \in I : k <= i]
JustSeeded(t) ==
    /\ pc[t] = "idle"
    /\ \E i \in DOMAIN returns : returns[i].thr = t
    /\ LastReturnOf(t).res.ok
    /\ calls[t] = <<>>

\* C4 (as claimed): a thread on which init_with_rng has just returned Ok, on
\* the first or on a repeated call, draws the same bytes as a thread whose
\* generator is built afterwards by its own first callback.
C4_SeedingThreadMatchesNewThreads ==
    \A t \in Threads :
        JustSeeded(t) => Stream(rng[t][1]) = Stream(from_seed(random_bytes_seed))

C6_Stable == init_result # None => init_result' = init_result
C6_SameResults ==
    \A i \in DOMAIN returns :
        /\ init_result # None
        /\ returns[i].res = result_of(init_result[1])
C7_InitOnlyAfterRegistration ==
    /\ \A i \in Initialisations :
          \E j \in Registrations :
              /\ j < i
              /\ host_log[j].ret = Some(0)
              /\ host_log[j].thr = host_log[i].thr
    /\ \A j \in Registrations :
          host_log[j].ret # Some(0) =>
              /\ Initialisations = {}
              /\ init_result # None => init_result = host_log[j].ret

\* C7 witness: registration was refused with 1 and that code was recorded.
C7_Witness ==
    /\ \E j \in Registrations : host_log[j].ret = Some(1)
    /\ init_result = Some(1)

\* The combined code of the libsodium calls made so far.
CombinedCode ==
    LET reg == host_log[CHOOSE j \in Registrations : TRUE].ret[1]
    IN  IF reg # 0 THEN reg
        ELSE host_log[CHOOSE i \in Initialisations : TRUE].ret[1]

\* C8: the first call returns Ok iff the combined libsodium code is 0, and
\* otherwise Err with exactly the code of the libsodium call that failed;
\* INIT_RESULT carries the same code.
C8_FirstResultIsHostCode ==
    returns # <<>> =>
        /\ returns[1].how = "first"
        /\ returns[1].res.ok <=> CombinedCode = 0
        /\ ~returns[1].res.ok => returns[1].res = Err(CombinedCode)
        /\ init_result = Some(CombinedCode)

\* C8 witness: registration succeeded, sodium_init returned 1, and the first
\* call returned Err(1).
C8_Witness ==
    /\ returns # <<>>
    /\ returns[1].res = Err(1)
    /\ \E j \in Registrations : host_log[j].ret = Some(0)
    /\ \E i \in Initialisations : host_log[i].ret = Some(1)

\* C9: generators built from the same seed and asked the same sequence of
\* random and buf(size) calls, on whichever threads, have produced the same
\* values and are in the same state.
C9_SameSeedSameOutput ==
    \A t, u \in Threads :
        (rng[t] # None /\ rng[u] # None /\ origin[t] = origin[u]
            /\ calls[t] = calls[u]) =>
                /\ outs[t] = outs[u]
                /\ rng[t] = rng[u]

\* C9 witness: two threads whose generators come from one seed have each
\* filled a buffer of the same non-zero length.
C9_Witness ==
    \E t, u \in Threads :
        /\ t # u
        /\ rng[t] # None /\ rng[u] # None
        /\ origin[t] = origin[u]
        /\ calls[t] = calls[u]
        /\ Len(calls[t]) = 1
        /\ calls[t][1] > 0

\* C10: buf(ptr, 0) stores nothing and leaves the generator as it was;
\* buf(ptr, N) stores one byte at each of the offsets 0..N-1 and none
\* elsewhere.
C10_BufferBounds ==
    last.kind = "buf" =>
        /\ \A o \in Offsets :
              Len(last.mem[o]) = IF o < last.size THEN 1 ELSE 0
        /\ last.size = 0 => last.post = last.pre

\* C10 witness: a thread has filled a buffer of the maximal length and then
\* been asked for zero bytes.
C10_Witness ==
    /\ last.kind = "buf"
    /\ last.size = 0
    /\ calls[last.thr] = <<MaxLen, 0>>

\* Locks a thread is about to request, given where it stands.  Callbacks may
\* arrive whenever libsodium holds the function pointers and the thread is in
\* user code or inside sodium_init(); implementation_name, and random and buf
\* on a thread without a generator, take RANDOM_BYTES_IMPL.
MayCallBack(t) == registered /\ pc[t] \in {"idle", "in_sodium_init"}
RequestsInitLock(t) == pc[t] = "lock"
RequestsImplLock(t) ==
    \/ pc[t] = "check" /\ (init_result = None \/ (init_result = Some(0) /\ rng[t] = None))
    \/ pc[t] = "reset" /\ rng[t] = None
    \/ MayCallBack(t)

C11_LockOrder ==
    \A t \in Threads :
        /\ RequestsInitLock(t) => (impl_lock # t /\ init_lock # t)
        /\ RequestsImplLock(t) => impl_lock # t
        /\ MayCallBack(t) => impl_lock = 0
        /\ impl_lock = t => pc[t] = "register"

\* C11: deadlock freedom: no thread asks for INIT_RESULT while it holds
\* RANDOM_BYTES_IMPL, no thread asks for a lock it holds, a callback never
\* finds RANDOM_BYTES_IMPL taken (it is held only around the registration
\* call), and under fair scheduling every call of init_with_rng returns.
C11_DeadlockFree ==
    /\ [](C11_LockOrder)
    /\ \A t \in Threads : []<>(pc[t] = "idle")

\* C11 witness: libsodium has called buf on the initialising thread from
\* inside sodium_init() while another caller waits for INIT_RESULT.
C11_Witness ==
    \E t, u \in Threads :
        /\ t # u
        /\ pc[t] = "in_sodium_init"
        /\ pc[u] = "lock"
        /\ last.kind = "buf"
        /\ last.thr = t
        /\ rng[t] # None

\* C12: when the first call returns on a thread, that thread's generator is
\* the initial generator of the call's seed, however many random or buf
\* callbacks libsodium made on the thread while the call was under way.
C12_Step ==
    \A t \in Threads :
        (pc[t] = "reset" /\ pc'[t] = "idle") =>
            rng'[t] = Some(from_seed(seed[t]))
C12_ResetAfterReentrantDraws == [][C12_Step]_vars

\* C12 witness: libsodium drew from the initialising thread, and the first
\* call has since returned there and left a generator that has served no
\* callback.
C12_Witness ==
    /\ Len(returns) = 1
    /\ returns[1].how = "first"
    /\ last.kind \in {"random", "buf"}
    /\ last.thr = returns[1].thr
    /\ last.post # from_seed(returns[1].seed)
    /\ pc[returns[1].thr] = "idle"
    /\ calls[returns[1].thr] = <<>>
    /\ rng[returns[1].thr] = Some(from_seed(returns[1].seed))

\* A thread that has never completed a call of init_with_rng and is not in
\* one: its generator, if any, was built by a callback.
NeverSeeded(t) ==
    /\ pc[t] = "idle"
    /\ \A i \in DOMAIN returns : returns[i].thr # t
Drew(t) == calls'[t] # calls[t] /\ calls'[t] # <<>>

\* C13: lazy creation: a random or buf call on a thread without a generator
\* starts from the generator of the seed RANDOM_BYTES_IMPL holds at that
\* moment, a later call starts from the state the previous one left; so a
\* thread whose generator is built by a callback once the first call has
\* succeeded, and before any reseed, runs from that call's seed.
C13_Step ==
    \A t \in Threads :
        Drew(t) =>
            /\ last'.thr = t
            /\ last'.pre = IF rng[t] = None THEN from_seed(random_bytes_seed)
                           ELSE rng[t][1]
            /\ rng'[t] = Some(last'.post)
            /\ origin'[t] = IF rng[t] = None THEN random_bytes_seed ELSE origin[t]
            /\ rng[t] = None => impl_lock = 0
C13_FromFirstSeed ==
    \A t \in Threads :
        (NeverSeeded(t) /\ rng[t] # None /\ Len(returns) = 1 /\ returns[1].res.ok) =>
            origin[t] = returns[1].seed
C13_LazyCreation == [](C13_FromFirstSeed) /\ [][C13_Step]_vars

\* C13 witness: after the first call succeeded, a thread that never called
\* init_with_rng has served two callbacks from one lazily built generator.
C13_Witness ==
    \E t \in Threads :
        /\ NeverSeeded(t)
        /\ Len(returns) = 1
        /\ returns[1].res.ok
        /\ rng[t] # None
        /\ Len(calls[t]) = 2
        /\ calls[t][1] # 0

\* C14: a step changes the generator of the thread that takes it and of no
\* other: a thread's generator changes only when that thread returns from
\* init_with_rng or serves a callback.
C14_Step ==
    \A b \in Threads :
        rng'[b] # rng[b] =>
            \/ pc[b] \in {"check", "reset"} /\ pc'[b] = "idle"
            \/ ncallbacks' # ncallbacks /\ last'.thr = b
C14_OwnGeneratorOnly == [][C14_Step]_vars

\* C14 witness: the thread of the first call still has the generator of the
\* first seed after another thread has reseeded with a different seed.
C14_Witness ==
    /\ Len(returns) = 2
    /\ returns[2].how = "existing"
    /\ returns[2].res.ok
    /\ returns[2].thr # returns[1].thr
    /\ returns[2].seed # returns[1].seed
    /\ rng[returns[1].thr] = Some(from_seed(returns[1].seed))
    /\ rng[returns[2].thr] = Some(from_seed(returns[2].seed))

\* C15: a callback changes neither RANDOM_BYTES_IMPL.seed nor INIT_RESULT,
\* nor what libsodium holds, nor a lock, nor another thread's generator;
\* implementation_name changes no generator at all and returns the fixed
\* name.
C15_Step ==
    ncallbacks' # ncallbacks =>
        /\ random_bytes_seed' = random_bytes_seed
        /\ init_result' = init_result
        /\ registered' = registered
        /\ host_log' = host_log
        /\ init_lock' = init_lock
        /\ impl_lock' = impl_lock
        /\ \A u \in Threads : u # last'.thr => rng'[u] = rng[u]
        /\ last'.kind = "implementation_name" =>
              /\ rng' = rng
              /\ last'.out = NAME
C15_CallbacksOnlyRead == [][C15_Step]_vars

\* C15 witness: implementation_name has been called on a thread without a
\* generator after another callback drew on some thread.
C15_Witness ==
    /\ last.kind = "implementation_name"
    /\ last.out = NAME
    /\ rng[last.thr] = None
    /\ \E u \in Threads : calls[u] # <<>>

Failed == init_result # None /\ init_result # Some(0)

\* C16: a first call that ends in failure still leaves its seed in
\* RANDOM_BYTES_IMPL (stored at registration) and the caller's generator
\* rebuilt from it; once INIT_RESULT holds a failure, no step of any call of
\* init_with_rng changes RANDOM_BYTES_IMPL.seed, INIT_RESULT or any
\* generator.
C16_Step ==
    \A t \in Threads :
        /\ (pc[t] = "reset" /\ pc'[t] = "idle" /\ sodium_result[t] # 0) =>
              /\ random_bytes_seed = seed[t]
              /\ random_bytes_seed' = seed[t]
              /\ rng'[t] = Some(from_seed(seed[t]))
              /\ init_result' = Some(sodium_result[t])
        /\ (Failed /\ pc'[t] # pc[t]) =>
              /\ random_bytes_seed' = random_bytes_seed
              /\ init_result' = init_result
              /\ rng' = rng
C16_FailureEffects == [][C16_Step]_vars

\* C16 witness: the first call failed and left its seed and generator; a
\* later call with another seed, on the same thread, was refused and both
\* are still in place.
C16_Witness ==
    /\ Len(returns) = 2
    /\ ~returns[1].res.ok
    /\ returns[2].how = "existing"
    /\ returns[2].thr = returns[1].thr
    /\ returns[2].seed # returns[1].seed
    /\ random_bytes_seed = returns[1].seed
    /\ rng[returns[1].thr] = Some(from_seed(returns[1].seed))

\* C17: buf(a) followed by buf(b) on one generator stores the bytes a single
\* buf(a+b) stores from the same starting state, and leaves the generator
\* in the same state.
C17_BufConcatenation ==
    \A t \in Threads :
        (/\ rng[t] # None
         /\ Len(calls[t]) = 2
         /\ calls[t][1] >= 0
         /\ calls[t][2] >= 0
         /\ calls[t][1] + calls[t][2] <= MaxLen) =>
            LET a == calls[t][1]
                b == calls[t][2]
                whole == buf_loop(from_seed(origin[t]), 0, a + b, Untouched)
            IN  /\ rng[t][1] = whole.g
                /\ \A o \in 0..(a - 1) : outs[t][1][o] = whole.m[o]
                /\ \A o \in 0..(b - 1) : outs[t][2][o] = whole.m[a + o]

\* C17 witness: one thread has filled two buffers of one byte each from a
\* generator that served nothing else.
C17_Witness ==
    \E t \in Threads :
        /\ rng[t] # None
        /\ calls[t] = <<1, 1>>

====
